---- MODULE Spec2Model ----
(***************************************************************************)
(* Report assembly pipeline of jmtruffa/reporting (report.py and            *)
(* report_aum.py): the sub-report generators, and generate_multi_report_pdf *)
(* which runs them in order, accumulates their layout elements, extracts    *)
(* the as-of date, renders the document with one filtered retry and cleans  *)
(* up the tracked chart files.  The functions around it (number formats,   *)
(* chart series and chart saving, get_report_date, execute_procedure and    *)
(* read_procedures_from_file) are modelled further down, each called on its *)
(* own.                                                                     *)
(*                                                                          *)
(* The data source, the chart library, the document renderer and the file   *)
(* system are the environment: a query returns rows, returns no row or      *)
(* raises; a chart render succeeds or raises; doc.build returns or raises   *)
(* and is taken to leave the list it is given as it is; os.remove succeeds  *)
(* or raises.                                                               *)
(***************************************************************************)
EXTENDS Integers, Sequences, FiniteSets, TLC

VARIABLES
    prog,                 \* which script runs: "report", "report_aum" or "custom"
    sub_report_functions, \* the list handed to generate_multi_report_pdf
    report_date,          \* the report date handed to it
    run,                  \* number of the current call of generate_multi_report_pdf
    pc,                   \* position in generate_multi_report_pdf
    i,                    \* index of the generator the for loop is at
    all_elements,         \* the accumulated stream
    image_paths,          \* chart files tracked for cleanup
    fecha_value,          \* doc.fecha_value, NoFecha while the attribute is unset
    fecha_writes,         \* how many times doc.fecha_value was assigned in this call
    results,              \* what each generator call so far did (returned or raised)
    contrib,              \* what the composer appended for each generator so far
    builds,               \* the doc.build calls so far: the list given and the outcome
    outcome,              \* "Pending", "Rendered", "DegradedRendered" or "Failed"
    output_written,       \* the output PDF was written by this call
    files,                \* chart files on disk
    first_run,            \* what the first call was given and what it produced
    printed,              \* the failure messages this call has printed
    call                  \* a call of one of the other functions: its inputs,
                          \* its position and what it has produced so far

vars == <<prog, sub_report_functions, report_date, run, pc, i, all_elements,
          image_paths, fecha_value, fecha_writes, results, contrib, builds,
          outcome, output_written, files, first_run, printed, call>>

\* the variables of generate_multi_report_pdf
composer_vars == <<prog, sub_report_functions, report_date, run, pc, i, all_elements,
                   image_paths, fecha_value, fecha_writes, results, contrib, builds,
                   outcome, output_written, files, first_run, printed>>

-----------------------------------------------------------------------------
(* Bounds of the model *)

\* longest generator list of a caller other than the two main() functions
MaxCustom == 2

\* how many times generate_multi_report_pdf is called on the same inputs
MaxRuns == 2

-----------------------------------------------------------------------------
(* Layout elements.  A Paragraph's text is kept as (tag, name, arg): tag is *)
(* the fixed wording, name the report the wording names, arg the value      *)
(* formatted into it.  An Image's arg is its filename.  imgs are the chart  *)
(* files an element refers to, directly or from a table cell.               *)

El(kind, tag, name, arg, imgs) ==
    [kind |-> kind, tag |-> tag, name |-> name, arg |-> arg, imgs |-> imgs]

Paragraph(tag, name, arg) == El("Paragraph", tag, name, arg, {})
Spacer == El("Spacer", "", "", "", {})
PageBreak == El("PageBreak", "", "", "", {})
Table(tag, imgs) == El("Table", tag, "", "", imgs)
Image(filename) == El("Image", "", "", filename, {filename})
\* a flowable of another class than the five the composer calls safe
KeepTogether == El("KeepTogether", "", "", "", {})

\* getattr(doc, 'fecha_value', 'N/A')
NoFecha == "N/A"

ReportDates == {"2025-03-13"}
CustomDates == <<"2025-03-12", "2025-03-14">>

\* what a generator call did: it returned `elements`, or it raised `reason`
\* with `elements` in its local list; `wrote` are the chart files it saved and
\* ds is what the data source answered: "raises", "no rows", "rows", or
\* "no query" for a generator that asks nothing
Res(ds, raised, elements, reason, wrote) ==
    [ds |-> ds, raised |-> raised, elements |-> elements, reason |-> reason,
     wrote |-> wrote]

-----------------------------------------------------------------------------
(* The generators: each is the set of things a call can do, one per answer  *)
(* of the data source and of the chart library.                             *)

sub_report_cover(date) ==
    { Res("no query", FALSE,
          <<Spacer, Spacer, Spacer, Paragraph("CoverTitle", "", ""),
            Spacer, Spacer, Spacer, Paragraph("Datos al", "", date), PageBreak>>,
          "", {}) }

\* a generator that returns the empty list when there is no row
NoDataReturn_empty(title) == <<>>

\* the "No data available for <title> report." return of a table generator
NoDataReturn(title) ==
    <<Paragraph("No data available", title, ""), PageBreak>>

\* title, spacer, "Fecha: <report_date>", spacer: what a table generator has
\* appended before it formats the rows
TableHead(title, date) ==
    <<Paragraph("Heading2", title, ""), Spacer, Paragraph("Fecha:", "", date), Spacer>>

\* the five table generators differ in query, title and number format only
TableReport(title, date) ==
    { Res("raises", TRUE, <<>>, "query failed", {}),
      Res("no rows", FALSE, NoDataReturn(title), "", {}),
      Res("rows", TRUE, TableHead(title, date), "format failed", {}),
      Res("rows", FALSE, TableHead(title, date) \o <<Table(title, {}), PageBreak>>, "", {}) }

sub_report_efec_gerente(date) == TableReport("Efectos Gerente", date)
sub_report_efec_subcategoria(date) == TableReport("Efectos Subcategoria", date)
sub_report_efec_categoria(date) == TableReport("Efectos Categoria", date)
sub_report_rentabilidades(date) == TableReport("Rentabilidades", date)
sub_report_fondos_sin_clasificar(date) == TableReport("Fondos Sin Clasificar", date)

AumChart == "aum_chart.png"
SubChart == "sub_chart.png"
TempChart == "temp_chart.png"
CustomChart == "custom_chart.png"

\* report.py: two queries, then the AUM chart, then the subscriptions chart
sub_report_summary(date) ==
    { Res("raises", TRUE, <<>>, "query failed", {}),
      Res("no rows", FALSE, <<Paragraph("No AUM data available", "Summary", ""), PageBreak>>, "", {}),
      Res("rows", FALSE, <<Spacer, Spacer,
                   Paragraph("AUM chart failed", "", "chart error"), PageBreak>>, "", {}),
      Res("rows", FALSE, <<Spacer, Spacer,
                   Paragraph("No Subscriptions data available", "", ""),
                   Image(AumChart), PageBreak>>, "", {AumChart}),
      Res("rows", FALSE, <<Spacer, Spacer,
                   Paragraph("Subscriptions chart failed", "", "chart error"),
                   PageBreak>>, "", {AumChart}),
      Res("rows", FALSE, <<Spacer, Spacer,
                   Table("side_by_side", {AumChart, SubChart}), PageBreak>>,
          "", {AumChart, SubChart}) }

\* what report_aum.py's sub_report_summary has appended before the chart
AumSummaryHead ==
    <<Paragraph("Heading2", "AUM POR FECHA", ""), Spacer,
      Paragraph("A continuacion", "", ""), Spacer>>

\* report_aum.py: one query, a table, then one chart
aum_sub_report_summary(date) ==
    { Res("raises", TRUE, <<>>, "query failed", {}),
      Res("no rows", FALSE, NoDataReturn("Summary"), "", {}),
      Res("rows", TRUE, AumSummaryHead, "format failed", {}),
      Res("rows", FALSE, AumSummaryHead \o <<Table("Summary", {}), Spacer,
                                     Image(TempChart), PageBreak>>, "", {TempChart}),
      Res("rows", FALSE, AumSummaryHead \o <<Table("Summary", {}), Spacer,
                                     Paragraph("Chart failed", "", "chart error"),
                                     PageBreak>>, "", {}) }

\* a generator of another caller: a section that states its own as-of date,
\* before a chart or after a flowable of another class, or a call that raises
sub_report_custom(date) ==
    { Res("rows", FALSE, <<Paragraph("Fecha:", "", CustomDates[1]), Image(CustomChart),
                   PageBreak>>, "", {CustomChart}),
      Res("rows", FALSE, <<KeepTogether, Paragraph("Fecha:", "", CustomDates[2]),
                   PageBreak>>, "", {}),
      Res("rows", TRUE, <<Paragraph("Fecha:", "", CustomDates[1])>>, "custom failed", {}) }

CustomName(k) == IF k = 1 THEN "sub_report_custom_1"
                 ELSE IF k = 2 THEN "sub_report_custom_2"
                 ELSE IF k = 3 THEN "sub_report_custom_3"
                 ELSE "sub_report_custom_n"

\* main() of report.py
ReportMain ==
    <<"sub_report_cover", "sub_report_summary", "sub_report_efec_categoria",
      "sub_report_efec_subcategoria", "sub_report_efec_gerente",
      "sub_report_rentabilidades", "sub_report_fondos_sin_clasificar">>

\* main() of report_aum.py
ReportAumMain ==
    <<"sub_report_efec_subcategoria", "sub_report_efec_categoria", "sub_report_summary">>

CustomLists == { [k \in 1..n |-> CustomName(k)] : n \in 1..MaxCustom }

\* func(report_date)
Call(p, func, date) ==
    CASE func = "sub_report_cover" -> sub_report_cover(date)
      [] func = "sub_report_summary" /\ p = "report" -> sub_report_summary(date)
      [] func = "sub_report_summary" /\ p # "report" -> aum_sub_report_summary(date)
      [] func = "sub_report_efec_gerente" -> sub_report_efec_gerente(date)
      [] func = "sub_report_efec_subcategoria" -> sub_report_efec_subcategoria(date)
      [] func = "sub_report_efec_categoria" -> sub_report_efec_categoria(date)
      [] func = "sub_report_rentabilidades" -> sub_report_rentabilidades(date)
      [] func = "sub_report_fondos_sin_clasificar" -> sub_report_fondos_sin_clasificar(date)
      [] OTHER -> sub_report_custom(date)

\* func.__name__.replace('sub_report_', '').replace('_', ' ').title()
ReportName(func) ==
    CASE func = "sub_report_cover" -> "Cover"
      [] func = "sub_report_summary" -> "Summary"
      [] func = "sub_report_efec_gerente" -> "Efec Gerente"
      [] func = "sub_report_efec_subcategoria" -> "Efec Subcategoria"
      [] func = "sub_report_efec_categoria" -> "Efec Categoria"
      [] func = "sub_report_rentabilidades" -> "Rentabilidades"
      [] func = "sub_report_fondos_sin_clasificar" -> "Fondos Sin Clasificar"
      [] func = "sub_report_custom_1" -> "Custom 1"
      [] func = "sub_report_custom_2" -> "Custom 2"
      [] func = "sub_report_custom_3" -> "Custom 3"
      [] OTHER -> "Custom N"

-----------------------------------------------------------------------------
(* generate_multi_report_pdf *)

\* isinstance(elem, Paragraph) and "Fecha:" in elem.text
ContainsFecha(elem) == elem.kind = "Paragraph" /\ elem.tag = "Fecha:"

\* re.search(r"Fecha: (\S+)", elem.text): the text has a match when something
\* other than white space follows "Fecha: "
FechaMatches(elem) == elem.arg # ""

\* fecha_match.group(1)
FechaGroup(elem) == elem.arg

\* doc.fecha_value = fecha_match.group(1)
SetFecha(doc, value) ==
    [doc EXCEPT !.fecha_value = value, !.fecha_writes = @ + 1]

\* the loop over sub_elements: the first Paragraph with a date marker sets
\* doc.fecha_value and ends the loop; an Image met before that is tracked
RECURSIVE ScanElements(_, _, _)
ScanElements(sub_elements, k, doc) ==
    IF k > Len(sub_elements) THEN doc
    ELSE LET elem == sub_elements[k] IN
         IF ContainsFecha(elem) /\ FechaMatches(elem)
         THEN SetFecha(doc, FechaGroup(elem))
         ELSE ScanElements(sub_elements, k + 1,
                 IF elem.kind = "Image"
                 THEN [doc EXCEPT !.image_paths = Append(@, elem.arg)]
                 ELSE doc)

\* a composer that puts the newest sub-report first
ExtendElements_front(stream, sub_elements) ==
    IF sub_elements # <<>> THEN sub_elements \o stream ELSE stream

\* if sub_elements: all_elements.extend(sub_elements)
ExtendElements(stream, sub_elements) ==
    IF sub_elements # <<>> THEN stream \o sub_elements ELSE stream

\* an except block that leaves str(e) out of the text
ErrorElements_noreason(func, reason) ==
    <<Paragraph("Error in", ReportName(func), ""), PageBreak>>

\* an except block that appends the Paragraph alone
ErrorElements_nobreak(func, reason) ==
    <<Paragraph("Error in", ReportName(func), reason)>>

\* the except block: Paragraph(f"Error in {report_name}: {str(e)}"), PageBreak()
ErrorElements(func, reason) ==
    <<Paragraph("Error in", ReportName(func), reason), PageBreak>>

\* a generator that appends to the composer's list as it goes: what it built
\* before it raised stays in the stream
ExceptAppend_partial(stream, func, r) ==
    stream \o r.elements \o ErrorElements(func, r.reason)

\* all_elements.append(Paragraph(...)); all_elements.append(PageBreak()): the
\* local list of the generator that raised (r.elements) is not looked at
ExceptAppend(stream, func, r) == stream \o ErrorElements(func, r.reason)

\* an except block that ends the loop
AfterRaise_abort(k, n) == n + 1

\* the for loop goes on with the next generator after the except block
AfterRaise(k, n) == k + 1

\* a loop that passes over the generator that follows
AfterReturn_skip(k, n) == k + 2

\* the for loop goes on with the next generator after the try block
AfterReturn(k, n) == k + 1

\* a tuple of safe types without Spacer
safe_types_nospacer == {"Paragraph", "Table", "PageBreak", "Image"}

\* safe_types = (Paragraph, Table, Spacer, PageBreak, Image)
safe_types == {"Paragraph", "Table", "Spacer", "PageBreak", "Image"}

RECURSIVE Filter(_, _)
Filter(stream, kinds) ==
    IF stream = <<>> THEN <<>>
    ELSE (IF Head(stream).kind \in kinds THEN <<Head(stream)>> ELSE <<>>)
         \o Filter(Tail(stream), kinds)

\* a retry on the list as it is
SafeElements_unfiltered(stream) == stream

\* safe_elements = [e for e in all_elements if type(e) in safe_types]
SafeElements(stream) == Filter(stream, safe_types)

\* a list that outlives the call (a module-level list, a mutable default)
InitialElements_kept(prev) == prev

\* all_elements = [] at the start of a call; prev is the list of the call before
InitialElements(prev) == <<>>

\* a cleanup loop placed in front of the builds
LoopPc_cleanupfirst(k, n) == IF k > n THEN "Cleanup" ELSE "PerSubReport"

\* the position once generator k of n is done
LoopPc(k, n) == IF k > n THEN "Assembling" ELSE "PerSubReport"

\* a line printed on standard output: its fixed wording and the value
\* formatted into it
Msg(msg, arg) == [msg |-> msg, arg |-> arg]

\* no other function is being called
NoCall == [fn |-> "none"]

\* except Exception as e2 of the second build: the failure is printed
MinimalBuildFailed_silent == {}

MinimalBuildFailed == {Msg("Minimal build failed", "")}

\* where control goes from that except block: nothing is raised again, the
\* cleanup loop follows
AfterRetryRaises_propagates == "Raised"

AfterRetryRaises == "Cleanup"

NoRun == [results |-> <<>>, builds |-> <<>>, all_elements |-> <<>>]

\* a second call is given what the first was given: the same answers of the
\* data source, of the chart library and of the renderer
SameAsFirstRun(r) == IF run = 1 THEN TRUE ELSE r = first_run.results[i]
SameBuildAsFirstRun(ok) ==
    IF run = 1 THEN TRUE ELSE ok = first_run.builds[Len(builds) + 1].ok

Init ==
    /\ prog \in {"report", "report_aum", "custom"}
    /\ sub_report_functions \in
          (IF prog = "report" THEN {ReportMain}
           ELSE IF prog = "report_aum" THEN {ReportAumMain}
           ELSE CustomLists)
    /\ report_date \in ReportDates
    /\ run = 1
    /\ pc = LoopPc(1, Len(sub_report_functions))
    /\ i = 1
    /\ all_elements = InitialElements(<<>>)
    /\ image_paths = <<>>
    /\ fecha_value = NoFecha
    /\ fecha_writes = 0
    /\ results = <<>>
    /\ contrib = <<>>
    /\ builds = <<>>
    /\ outcome = "Pending"
    /\ output_written = FALSE
    /\ files = {}
    /\ first_run = NoRun
    /\ printed = {}
    /\ call = NoCall

\* the try block ran to its end: func returned, its elements were appended
\* and scanned
SubReportReturns ==
    /\ pc = "PerSubReport"
    /\ \E r \in Call(prog, sub_report_functions[i], report_date) :
          /\ ~r.raised
          /\ SameAsFirstRun(r)
          /\ LET doc == ScanElements(r.elements, 1,
                           [fecha_value |-> fecha_value,
                            fecha_writes |-> fecha_writes,
                            image_paths |-> image_paths])
                 scanned == IF r.elements # <<>> THEN doc
                            ELSE [fecha_value |-> fecha_value,
                                  fecha_writes |-> fecha_writes,
                                  image_paths |-> image_paths]
             IN /\ all_elements' = ExtendElements(all_elements, r.elements)
                /\ fecha_value' = scanned.fecha_value
                /\ fecha_writes' = scanned.fecha_writes
                /\ image_paths' = scanned.image_paths
                /\ contrib' = Append(contrib,
                                 SubSeq(all_elements', Len(all_elements) + 1,
                                        Len(all_elements')))
          /\ results' = Append(results, r)
          /\ files' = files \cup r.wrote
    /\ i' = AfterReturn(i, Len(sub_report_functions))
    /\ pc' = LoopPc(i', Len(sub_report_functions))
    /\ UNCHANGED <<call, printed, prog, sub_report_functions, report_date, run, builds, outcome,
                   output_written, first_run>>

\* func raised: the except block appends the error placeholder
SubReportRaises ==
    /\ pc = "PerSubReport"
    /\ \E r \in Call(prog, sub_report_functions[i], report_date) :
          /\ r.raised
          /\ SameAsFirstRun(r)
          /\ all_elements' = ExceptAppend(all_elements, sub_report_functions[i], r)
          /\ contrib' = Append(contrib,
                           SubSeq(all_elements', Len(all_elements) + 1,
                                  Len(all_elements')))
          /\ results' = Append(results, r)
          /\ files' = files \cup r.wrote
          /\ printed' = printed \cup
                 {Msg("Error in sub-report", ReportName(sub_report_functions[i]))}
    /\ i' = AfterRaise(i, Len(sub_report_functions))
    /\ pc' = LoopPc(i', Len(sub_report_functions))
    /\ UNCHANGED <<call, prog, sub_report_functions, report_date, run, image_paths,
                   fecha_value, fecha_writes, builds, outcome, output_written,
                   first_run>>

\* the first doc.build(all_elements, ...) returns
BuildSucceeds ==
    /\ pc = "Assembling"
    /\ SameBuildAsFirstRun(TRUE)
    /\ builds' = Append(builds, [given |-> all_elements, ok |-> TRUE])
    /\ outcome' = "Rendered"
    /\ output_written' = TRUE
    /\ pc' = "Cleanup"
    /\ UNCHANGED <<call, printed, prog, sub_report_functions, report_date, run, i, all_elements,
                   image_paths, fecha_value, fecha_writes, results, contrib,
                   files, first_run>>

\* the first doc.build raises: with a safe element left the build is tried
\* again, with none the call goes on to the cleanup
BuildRaises ==
    /\ pc = "Assembling"
    /\ SameBuildAsFirstRun(FALSE)
    /\ builds' = Append(builds, [given |-> all_elements, ok |-> FALSE])
    /\ IF SafeElements(all_elements) # <<>>
       THEN /\ pc' = "Retry"
            /\ outcome' = outcome
            /\ printed' = printed \cup {Msg("Error during PDF build", "")}
       ELSE /\ pc' = "Cleanup"
            /\ outcome' = "Failed"
            /\ printed' = printed \cup {Msg("Error during PDF build", ""),
                                        Msg("No safe elements to build PDF", "")}
    /\ UNCHANGED <<call, prog, sub_report_functions, report_date, run, i, all_elements,
                   image_paths, fecha_value, fecha_writes, results, contrib,
                   output_written, files, first_run>>

\* doc.build(safe_elements, ...) returns
RetrySucceeds ==
    /\ pc = "Retry"
    /\ SameBuildAsFirstRun(TRUE)
    /\ builds' = Append(builds, [given |-> SafeElements(all_elements), ok |-> TRUE])
    /\ outcome' = "DegradedRendered"
    /\ output_written' = TRUE
    /\ pc' = "Cleanup"
    /\ UNCHANGED <<call, printed, prog, sub_report_functions, report_date, run, i, all_elements,
                   image_paths, fecha_value, fecha_writes, results, contrib,
                   files, first_run>>

\* doc.build(safe_elements, ...) raises: "Minimal build failed"
RetryRaises ==
    /\ pc = "Retry"
    /\ SameBuildAsFirstRun(FALSE)
    /\ builds' = Append(builds, [given |-> SafeElements(all_elements), ok |-> FALSE])
    /\ outcome' = "Failed"
    /\ printed' = printed \cup MinimalBuildFailed
    /\ pc' = AfterRetryRaises
    /\ UNCHANGED <<call, prog, sub_report_functions, report_date, run, i, all_elements,
                   image_paths, fecha_value, fecha_writes, results, contrib,
                   output_written, files, first_run>>

\* the set of the members of a sequence
Range(seq) == { seq[k] : k \in 1..Len(seq) }

\* a cleanup loop that removes nothing
RemoveTracked_none(on_disk, paths, failed) == on_disk

\* what is on disk after the loop: each path of image_paths that exists is
\* handed to os.remove, which removes it unless it raises (failed)
RemoveTracked(on_disk, paths, failed) == on_disk \ (Range(paths) \ failed)

\* for path in image_paths: os.remove(path) if it exists; a remove that
\* raises is reported and the loop goes on
Cleanup ==
    /\ pc = "Cleanup"
    /\ \E failed \in SUBSET (Range(image_paths) \cap files) :
          /\ files' = RemoveTracked(files, image_paths, failed)
          /\ printed' = printed \cup { Msg("Failed to clean up", path) : path \in failed }
    /\ pc' = "Returned"
    /\ UNCHANGED <<call, prog, sub_report_functions, report_date, run, i, all_elements,
                   image_paths, fecha_value, fecha_writes, results, contrib,
                   builds, outcome, output_written, first_run>>

\* generate_multi_report_pdf is called again with the same arguments
RunAgain ==
    /\ pc = "Returned"
    /\ run < MaxRuns
    /\ run' = run + 1
    /\ first_run' = IF run = 1
                    THEN [results |-> results, builds |-> builds,
                          all_elements |-> all_elements]
                    ELSE first_run
    /\ pc' = LoopPc(1, Len(sub_report_functions))
    /\ i' = 1
    /\ all_elements' = InitialElements(all_elements)
    /\ image_paths' = <<>>
    /\ fecha_value' = NoFecha
    /\ fecha_writes' = 0
    /\ results' = <<>>
    /\ contrib' = <<>>
    /\ builds' = <<>>
    /\ outcome' = "Pending"
    /\ output_written' = FALSE
    /\ printed' = {}
    /\ UNCHANGED <<call, prog, sub_report_functions, report_date, files>>

Next ==
    \/ SubReportReturns
    \/ SubReportRaises
    \/ BuildSucceeds
    \/ BuildRaises
    \/ RetrySucceeds
    \/ RetryRaises
    \/ Cleanup

\* one call of generate_multi_report_pdf
Spec == Init /\ [][Next]_vars

NextTwice == Next \/ RunAgain

\* the call repeated on the same inputs
SpecTwice == Init /\ [][NextTwice]_vars

-----------------------------------------------------------------------------
(* Vocabulary of the properties *)

N == Len(sub_report_functions)

\* the for loop over the generators is over
LoopDone == pc \in {"Assembling", "Retry", "Cleanup", "Returned"}

\* both builds are over
BuildsDone == pc \in {"Cleanup", "Returned"}

RECURSIVE Flatten(_)
Flatten(seqs) ==
    IF seqs = <<>> THEN <<>> ELSE Head(seqs) \o Flatten(Tail(seqs))

\* the number of members of seq that are of kind
CountKind(seq, kind) == Cardinality({ k \in 1..Len(seq) : seq[k].kind = kind })

Raised == { k \in 1..Len(results) : results[k].raised }
Returned == { k \in 1..Len(results) : ~results[k].raised }

\* an error placeholder for generator k: it names the generator and the reason
IsErrorPlaceholder(elem, k) ==
    /\ elem.kind = "Paragraph"
    /\ elem.tag = "Error in"
    /\ elem.name = ReportName(sub_report_functions[k])
    /\ elem.arg = results[k].reason

\* a "no data" notice
IsNoDataNotice(elem) ==
    /\ elem.kind = "Paragraph"
    /\ elem.tag \in {"No data available", "No AUM data available"}

-----------------------------------------------------------------------------
\* C1: a generator that raises never aborts the pipeline: control is back in
\* the composer's loop, which goes on with the next generator, so that once
\* the loop is over every generator of the list has been invoked, whichever
\* of them raised.
C1_RaiseNeverAborts ==
    /\ pc = "PerSubReport" => i \in 1..N /\ Len(results) = i - 1
    /\ LoopDone => Len(results) = N
    /\ \A k \in Raised :
          k < N => Len(results) > k \/ (pc = "PerSubReport" /\ i = k + 1)

C1_Witness ==
    /\ pc = "Returned"
    /\ N >= 3
    /\ 1 \in Raised
    /\ 2 \in Returned
    /\ N \in Raised

-----------------------------------------------------------------------------
\* C2 as stated: when a generator raises, exactly one element is appended to
\* the stream for it, the error placeholder carrying its identity and the
\* reason.
C2_AppendsOneElement ==
    \A k \in Raised :
        k <= Len(contrib) => Len(contrib[k]) = 1 /\ IsErrorPlaceholder(contrib[k][1], k)

\* C2 amended: when a generator raises, exactly two elements are appended for it:
\* one error placeholder Paragraph carrying the generator's identity and the
\* failure reason, followed by one PageBreak.
C2_AppendsPlaceholderAndBreak ==
    \A k \in Raised :
        k <= Len(contrib) =>
            /\ Len(contrib[k]) = 2
            /\ IsErrorPlaceholder(contrib[k][1], k)
            /\ contrib[k][2].kind = "PageBreak"

C2_Witness ==
    /\ LoopDone
    /\ \E k \in Raised : results[k].reason = "format failed"
    /\ \E k \in Raised : results[k].reason = "query failed"

-----------------------------------------------------------------------------
\* C3: a failure of one sub-report does not cross into the others: the stream
\* is at all times the concatenation of what was appended for each generator
\* (what was appended earlier is never changed), nothing the raising
\* generator had built enters the stream, and what is appended for a
\* generator that returns is what it returned, whatever the others did.
C3_FailureStaysLocal ==
    /\ all_elements = Flatten(contrib)
    /\ \A k \in Raised :
          \A m \in 1..Len(results[k].elements) :
              \A n \in 1..Len(contrib[k]) : contrib[k][n] # results[k].elements[m]
    /\ \A k \in Returned : contrib[k] = results[k].elements

C3_Witness ==
    /\ LoopDone
    /\ \E k \in Raised :
          /\ results[k].elements # <<>>
          /\ k > 1 /\ k - 1 \in Returned
          /\ k < N /\ k + 1 \in Returned /\ results[k + 1].ds = "rows"

-----------------------------------------------------------------------------
-----------------------------------------------------------------------------
\* the value of the first date marker of a returned sequence, NoFecha if none
RECURSIVE FirstMarker(_)
FirstMarker(elements) ==
    IF elements = <<>> THEN NoFecha
    ELSE IF Head(elements).kind = "Paragraph" /\ Head(elements).tag = "Fecha:"
            /\ Head(elements).arg # ""
         THEN Head(elements).arg
         ELSE FirstMarker(Tail(elements))

\* the generators whose returned sequence holds a date marker
Markers == { k \in Returned : FirstMarker(results[k].elements) # NoFecha }

FirstOf(set) == CHOOSE k \in set : \A m \in set : k <= m
LastOf(set) == CHOOSE k \in set : \A m \in set : k >= m

\* C5 as stated: when two or more generators emit a date marker, the as-of
\* date of the document at render time is the marker value of the first of
\* them in configured order.
C5_FirstMarkerWins ==
    (LoopDone /\ Cardinality(Markers) >= 2) =>
        fecha_value = FirstMarker(results[FirstOf(Markers)].elements)

\* what the code does instead: the last generator with a marker decides
C5_LastMarkerWins ==
    (LoopDone /\ Markers # {}) =>
        fecha_value = FirstMarker(results[LastOf(Markers)].elements)

-----------------------------------------------------------------------------
\* C6 as stated: doc.fecha_value is assigned at most once in a run: once it is
\* set, the output of a later generator never writes it again.
C6_WrittenAtMostOnce == fecha_writes <= 1

\* what the code does instead: one assignment per generator that returned a marker
C6_WrittenOncePerMarker == fecha_writes = Cardinality(Markers)

-----------------------------------------------------------------------------
\* what the composer is to append for generator k: what it returned, or the
\* error placeholder and a page break
Section(k) ==
    IF results[k].raised
    THEN <<[kind |-> "Paragraph", tag |-> "Error in",
            name |-> ReportName(sub_report_functions[k]),
            arg |-> results[k].reason, imgs |-> {}],
           [kind |-> "PageBreak", tag |-> "", name |-> "", arg |-> "", imgs |-> {}]>>
    ELSE results[k].elements

Concatenation == Flatten([k \in 1..Len(results) |-> Section(k)])

RendererSafeKinds == {"Paragraph", "Table", "Spacer", "PageBreak", "Image"}

\* seq without its members of another kind than kinds, order kept
Keep(seq, kinds) == SelectSeq(seq, LAMBDA e : e.kind \in kinds)

\* C7: the stream handed to the renderer is the concatenation, in configured
\* order, of what each generator returned or of its error placeholder, the
\* order inside each kept; the retry is handed the same sequence less the
\* elements that are not renderer-safe, in the same order.
C7_StreamIsConcatenation ==
    /\ all_elements = Concatenation
    /\ Len(builds) >= 1 =>
          /\ Len(results) = N
          /\ builds[1].given = Concatenation
    /\ Len(builds) >= 2 => builds[2].given = Keep(Concatenation, RendererSafeKinds)

C7_Witness ==
    /\ Len(builds) = 2
    /\ N >= 3
    /\ Raised # {}
    /\ \E k \in Returned : k > 1 /\ Len(results[k].elements) > 2 /\ k - 1 \in Returned

-----------------------------------------------------------------------------
\* C8: a second run of the composer on the same inputs (the same list, date,
\* answers of the data source and failures) accumulates the same sequence of
\* elements as the first and hands the same sequences to the renderer.
C8_SecondRunSameDocument ==
    run >= 2 =>
        /\ LoopDone => all_elements = first_run.all_elements
        /\ \A b \in 1..Len(builds) : builds[b] = first_run.builds[b]
        /\ pc = "Returned" => builds = first_run.builds

C8_Witness ==
    /\ run = 2
    /\ pc = "Returned"
    /\ Raised # {}
    /\ Len(builds) = 2
    /\ Len(all_elements) > 4
    /\ files # {}

-----------------------------------------------------------------------------
\* a placeholder section: a notice or an error Paragraph, then a page break
IsPlaceholderSection(seq, k) ==
    /\ Len(seq) = 2
    /\ IsNoDataNotice(seq[1]) \/ IsErrorPlaceholder(seq[1], k)
    /\ seq[2].kind = "PageBreak"

\* C9: whichever generators have no data or raise, the document has one
\* section per generator, in configured order (each section ends with its
\* page break, a degraded one is a placeholder), and when the first render
\* does not raise the run ends Rendered, with the file written.
C9_OneSectionPerGenerator ==
    /\ LoopDone =>
          /\ Len(contrib) = N
          /\ all_elements = Flatten(contrib)
          /\ CountKind(all_elements, "PageBreak") = N
          /\ \A k \in 1..N :
                /\ contrib[k] # <<>>
                /\ contrib[k][Len(contrib[k])].kind = "PageBreak"
                /\ (results[k].raised \/ results[k].ds = "no rows")
                      => IsPlaceholderSection(contrib[k], k)
                /\ ~results[k].raised => contrib[k] = results[k].elements
    /\ (BuildsDone /\ builds[1].ok) => outcome = "Rendered" /\ output_written

C9_Witness ==
    /\ pc = "Returned"
    /\ outcome = "Rendered"
    /\ N >= 5
    /\ Cardinality(Raised) = 1
    /\ Cardinality({ k \in 1..N : results[k].ds = "no rows" }) = 1
    /\ Cardinality({ k \in Returned : results[k].ds # "no rows" }) >= 3

-----------------------------------------------------------------------------
-----------------------------------------------------------------------------
\* C11: when the retry raises as well, the run ends Failed: no output file
\* is written, the failure is printed, and the exception is not raised
\* again: control goes on to the cleanup loop, which always runs to its end,
\* and the call returns.
C11_RetryRaiseEndsFailed ==
    /\ pc # "Raised"
    /\ (Len(builds) = 2 /\ ~builds[2].ok) =>
          /\ outcome = "Failed"
          /\ ~output_written
          /\ Msg("Minimal build failed", "") \in printed
          /\ pc \in {"Cleanup", "Returned"}
          /\ pc = "Cleanup" => ENABLED Cleanup

C11_Witness ==
    /\ pc = "Returned"
    /\ Len(builds) = 2
    /\ ~builds[2].ok
    /\ outcome = "Failed"

-----------------------------------------------------------------------------
\* the chart files the elements of the stream refer to, from an Image of the
\* stream or from an Image in a table cell
Referenced == UNION { all_elements[k].imgs : k \in 1..Len(all_elements) }

\* C12: for the generator lists of the two main() functions, when the call
\* has returned after a render that succeeded (Rendered or
\* DegradedRendered), every chart file that an element of the stream refers
\* to, an Image in a table cell included, is gone from the disk or its
\* failed removal was printed.
C12_ReferencedImagesDeleted ==
    (prog # "custom" /\ pc = "Returned"
        /\ outcome \in {"Rendered", "DegradedRendered"}) =>
        \A path \in Referenced :
            path \notin files \/ Msg("Failed to clean up", path) \in printed

-----------------------------------------------------------------------------
ChartFailedTags == {"AUM chart failed", "Subscriptions chart failed", "Chart failed"}

\* the generator caught a chart failure and appended its placeholder
ChartFailed(r) ==
    \E m \in 1..Len(r.elements) :
        r.elements[m].kind = "Paragraph" /\ r.elements[m].tag \in ChartFailedTags

\* C13: a generator that caught a chart failure returns the placeholder with
\* the reason and, with it, everything it had produced before: in
\* particular every chart it had rendered before the failure is referred to
\* by an element of the sequence it returns.
C13_ChartFailureKeepsOutput ==
    \A k \in Returned :
        ChartFailed(results[k]) =>
            /\ \E m \in 1..Len(results[k].elements) :
                  /\ results[k].elements[m].tag \in ChartFailedTags
                  /\ results[k].elements[m].arg # ""
            /\ \A path \in results[k].wrote :
                  \E m \in 1..Len(results[k].elements) :
                      path \in results[k].elements[m].imgs

-----------------------------------------------------------------------------
(* The other functions of the two scripts, each called on its own: the      *)
(* number formatting of the table cells, the series handed to the bar       *)
(* chart, the check that follows the saving of a chart, get_report_date,    *)
(* execute_procedure and read_procedures_from_file.  call holds the inputs  *)
(* of the call, its position and what it has produced.  A text is the       *)
(* sequence of its characters.                                              *)

\* the largest magnitude formatted, in eighths: a number is kept as a count
\* of eighths, which a float and a Decimal both hold exactly (9876 is 1234.5)
MaxEighths == 10000

DigitChars == <<"0", "1", "2", "3", "4", "5", "6", "7", "8", "9">>

RECURSIVE Pow10(_)
Pow10(places) == IF places = 0 THEN 1 ELSE 10 * Pow10(places - 1)

\* the decimal digits of n >= 0
RECURSIVE Digits(_)
Digits(n) ==
    IF n < 10 THEN <<DigitChars[n + 1]>>
    ELSE Digits(n \div 10) \o <<DigitChars[(n % 10) + 1]>>

\* the digits of n on exactly places positions, zeros in front
RECURSIVE ZeroPad(_, _)
ZeroPad(n, places) ==
    IF places = 0 THEN <<>>
    ELSE ZeroPad(n \div 10, places - 1) \o <<DigitChars[(n % 10) + 1]>>

\* the ',' option of the format specification: a comma every three digits
RECURSIVE GroupThousands(_)
GroupThousands(digits) ==
    IF Len(digits) <= 3 THEN digits
    ELSE GroupThousands(SubSeq(digits, 1, Len(digits) - 3)) \o <<",">>
            \o SubSeq(digits, Len(digits) - 2, Len(digits))

\* num / den rounded to an integer, a tie going up (num >= 0, den > 0)
RoundHalf_up(num, den) ==
    IF 2 * (num % den) >= den THEN (num \div den) + 1 ELSE num \div den

\* num / den rounded to an integer the way Python's format does it: to the
\* nearest, a tie going to the even neighbour (num >= 0, den > 0)
RoundHalf(num, den) ==
    LET q == num \div den
        r == num % den
    IN IF 2 * r < den THEN q
       ELSE IF 2 * r > den THEN q + 1
       ELSE IF q % 2 = 0 THEN q ELSE q + 1

\* "{:,.<places>f}".format(x) for x = eighths / 8
FormatFixed(places, eighths) ==
    LET mag == IF eighths < 0 THEN -eighths ELSE eighths
        scaled == RoundHalf(mag * Pow10(places), 8)
        sign == IF eighths < 0 THEN <<"-">> ELSE <<>>
        whole == GroupThousands(Digits(scaled \div Pow10(places)))
    IN IF places = 0 THEN sign \o whole
       ELSE sign \o whole \o <<".">> \o ZeroPad(scaled % Pow10(places), places)

\* text.replace(old, new) for one character
Replace(chars, old, new) ==
    [k \in 1..Len(chars) |-> IF chars[k] = old THEN new ELSE chars[k]]

\* "{:,.2f}".format(x).replace(",", ".")
TwoDecimals(eighths) == Replace(FormatFixed(2, eighths), ",", ".")

\* "{:,.0f}".format(x).replace(",", ".")
ZeroDecimals(eighths) == Replace(FormatFixed(0, eighths), ",", ".")

\* the numbers formatted: up to MaxEighths eighths either side of zero, and
\* the same in thousands
FormatValues ==
    { e * scale : e \in (-MaxEighths)..MaxEighths, scale \in {1, 1000} }

FormatCalls ==
    { [fn |-> "format", pc |-> "called", places |-> places, value |-> e, ret |-> <<>>] :
         places \in {0, 2}, e \in FormatValues }

\* a cell of a two-decimal column is formatted
FormatTwoDecimals ==
    /\ call.fn = "format"
    /\ call.pc = "called"
    /\ call.places = 2
    /\ call' = [call EXCEPT !.pc = "done", !.ret = TwoDecimals(call.value)]
    /\ UNCHANGED composer_vars

\* a cell of a zero-decimal column is formatted
FormatZeroDecimals ==
    /\ call.fn = "format"
    /\ call.pc = "called"
    /\ call.places = 0
    /\ call' = [call EXCEPT !.pc = "done", !.ret = ZeroDecimals(call.value)]
    /\ UNCHANGED composer_vars

-----------------------------------------------------------------------------
(* The series of a bar chart *)

\* the most rows a chart query returns
MaxRows == 3

Date(y, m, d) == [y |-> y, m |-> m, d |-> d]

\* d1 is an earlier day than d2
Before(d1, d2) ==
    IF d1.y # d2.y THEN d1.y < d2.y
    ELSE IF d1.m # d2.m THEN d1.m < d2.m
    ELSE d1.d < d2.d

\* the snapshot dates the data source holds
ChartDates == {Date(2024, 12, 30), Date(2024, 12, 31), Date(2025, 1, 2), Date(2025, 1, 3)}

\* the totals it holds, in eighths
ChartTotals == {12, 20}

ChartRows == [fecha : ChartDates, total : ChartTotals]

\* GROUP BY fecha_imputada ORDER BY fecha_imputada DESC LIMIT n: one row per
\* date, the newest first
ChartData ==
    { data \in UNION { [1..n -> ChartRows] : n \in 1..MaxRows } :
         \A j \in 1..(Len(data) - 1) : Before(data[j + 1].fecha, data[j].fecha) }

\* data.reverse(): the list itself is put in the opposite order
ReverseSlice_inplace(data) ==
    [slice |-> [k \in 1..Len(data) |-> data[Len(data) - k + 1]],
     data |-> [k \in 1..Len(data) |-> data[Len(data) - k + 1]]]

\* data[::-1]: a new list in the opposite order; data is left as it is
ReverseSlice(data) ==
    [slice |-> [k \in 1..Len(data) |-> data[Len(data) - k + 1]],
     data |-> data]

\* datetime.strptime(str(row[0]), '%Y-%m-%d'): the date at midnight
Strptime(fecha) == [y |-> fecha.y, m |-> fecha.m, d |-> fecha.d, hour |-> 0]

\* f.strftime('%m-%d')
StrftimeMonthDay(f) == ZeroPad(f.m, 2) \o <<"-">> \o ZeroPad(f.d, 2)

\* float(row[1])
Float(total) == [float |-> total]

ChartSeriesCalls ==
    { [fn |-> "chart_series", pc |-> "called", given |-> data, data |-> data,
       fechas |-> <<>>, values |-> <<>>, labels |-> <<>>] : data \in ChartData }

\* the two list comprehensions over data[::-1] and the tick labels
ChartSeries ==
    /\ call.fn = "chart_series"
    /\ call.pc = "called"
    /\ LET first == ReverseSlice(call.data)
           second == ReverseSlice(first.data)
           fechas == [k \in 1..Len(first.slice) |-> Strptime(first.slice[k].fecha)]
       IN call' = [call EXCEPT
                     !.pc = "done",
                     !.fechas = fechas,
                     !.values = [k \in 1..Len(second.slice) |->
                                    Float(second.slice[k].total)],
                     !.labels = [k \in 1..Len(fechas) |-> StrftimeMonthDay(fechas[k])],
                     !.data = second.data]
    /\ UNCHANGED composer_vars

-----------------------------------------------------------------------------
(* The saving of a chart: plt.savefig, time.sleep(0.1), os.path.exists.  The *)
(* file system shows the file at some moment after savefig has returned,    *)
(* during the sleep or later, or never.                                     *)

SaveChartCalls ==
    { [fn |-> "save_chart", pc |-> "savefig", appears |-> appears, visible |-> FALSE,
       late |-> FALSE, checks |-> 0, ret |-> "none"] : appears \in BOOLEAN }

\* plt.savefig returns
Savefig ==
    /\ call.fn = "save_chart"
    /\ call.pc = "savefig"
    /\ call' = [call EXCEPT !.pc = "sleep"]
    /\ UNCHANGED composer_vars

\* plt.savefig raises: the except block of the chart takes over
SavefigRaises ==
    /\ call.fn = "save_chart"
    /\ call.pc = "savefig"
    /\ ~call.appears
    /\ call' = [call EXCEPT !.pc = "done", !.ret = "savefig error"]
    /\ UNCHANGED composer_vars

\* the file system shows the file; late when the check is already over
FileBecomesVisible ==
    /\ call.fn = "save_chart"
    /\ call.pc \in {"sleep", "check", "done"}
    /\ call.appears
    /\ ~call.visible
    /\ call' = [call EXCEPT !.visible = TRUE, !.late = (call.pc = "done")]
    /\ UNCHANGED composer_vars

\* time.sleep(0.1)
Sleep ==
    /\ call.fn = "save_chart"
    /\ call.pc = "sleep"
    /\ call' = [call EXCEPT !.pc = "check"]
    /\ UNCHANGED composer_vars

\* a check that is satisfied whatever the file system shows
PathExists_always(visible) == TRUE

\* os.path.exists(chart_path)
PathExists(visible) == visible

\* if not os.path.exists(chart_path): raise FileNotFoundError
ExistsCheck ==
    /\ call.fn = "save_chart"
    /\ call.pc = "check"
    /\ call' = [call EXCEPT
                  !.pc = "done",
                  !.checks = @ + 1,
                  !.ret = IF PathExists(call.visible) THEN "ok"
                          ELSE "FileNotFoundError"]
    /\ UNCHANGED composer_vars

-----------------------------------------------------------------------------
(* get_report_date.  The text of a date argument is kept as the three       *)
(* numbers written in it, whether month and day are written on two digits,  *)
(* and whether anything else is in it (other separators, spaces, letters).  *)

ArgText(y, m, d, padded, junk) ==
    [y |-> y, m |-> m, d |-> d, padded |-> padded, junk |-> junk]

\* date.isoformat(): YYYY-MM-DD, month and day on two digits
Isoformat(date) == ArgText(date.y, date.m, date.d, TRUE, FALSE)

\* the text '2025-03-13'
FallbackDate_none == ArgText(0, 0, 0, FALSE, TRUE)

FallbackDate == ArgText(2025, 3, 13, TRUE, FALSE)

DaysInMonth(y, m) ==
    IF m = 2 THEN (IF y % 4 = 0 /\ (y % 100 # 0 \/ y % 400 = 0) THEN 29 ELSE 28)
    ELSE IF m \in {4, 6, 9, 11} THEN 30 ELSE 31

\* datetime.strptime(text, '%Y-%m-%d') does not raise ValueError: nothing but
\* the three numbers and the two dashes, and a day that exists; a month or a
\* day written on one digit is accepted
StrptimeAccepts(text) ==
    /\ ~text.junk
    /\ text.m \in 1..12
    /\ text.d \in 1..DaysInMonth(text.y, text.m)

\* sys.argv: no argument, or the text of sys.argv[1]
ArgvValues ==
    { [given |-> FALSE, text |-> ArgText(0, 0, 0, FALSE, TRUE)] } \cup
    { [given |-> TRUE, text |-> ArgText(2025, m, d, padded, junk)] :
         m \in {2, 3, 13}, d \in {5, 30}, padded \in BOOLEAN, junk \in BOOLEAN }

\* SELECT MAX(fecha_imputada): a date, NULL, or the connection or the query
\* raises
DbAnswers ==
    { [kind |-> "date", date |-> Date(2025, 3, 12)],
      [kind |-> "date", date |-> Date(2024, 12, 31)],
      [kind |-> "none", date |-> Date(0, 0, 0)],
      [kind |-> "raises", date |-> Date(0, 0, 0)] }

GetReportDateCalls ==
    { [fn |-> "get_report_date", pc |-> "called", argv |-> argv, db |-> db,
       queried |-> FALSE, ret |-> ArgText(0, 0, 0, FALSE, TRUE)] :
         argv \in ArgvValues, db \in DbAnswers }

\* len(sys.argv) > 1 and strptime accepts the argument: it is returned in
\* ISO form
DateFromArgument ==
    /\ call.fn = "get_report_date"
    /\ call.pc = "called"
    /\ call.argv.given
    /\ StrptimeAccepts(call.argv.text)
    /\ call' = [call EXCEPT
                  !.pc = "returned",
                  !.ret = Isoformat(Date(call.argv.text.y, call.argv.text.m,
                                         call.argv.text.d))]
    /\ UNCHANGED composer_vars

\* no argument, or strptime raises ValueError: on to the query
DateNotFromArgument ==
    /\ call.fn = "get_report_date"
    /\ call.pc = "called"
    /\ IF call.argv.given THEN ~StrptimeAccepts(call.argv.text) ELSE TRUE
    /\ call' = [call EXCEPT !.pc = "query"]
    /\ UNCHANGED composer_vars

\* result.isoformat() if result else '2025-03-13'
DateOfResult(db) == IF db.kind = "date" THEN Isoformat(db.date) ELSE FallbackDate

\* the query returns
DateFromDatabase ==
    /\ call.fn = "get_report_date"
    /\ call.pc = "query"
    /\ call.db.kind # "raises"
    /\ call' = [call EXCEPT !.pc = "returned", !.queried = TRUE,
                            !.ret = DateOfResult(call.db)]
    /\ UNCHANGED composer_vars

\* engine.connect() or connection.execute raises: nothing catches it
DateQueryRaises ==
    /\ call.fn = "get_report_date"
    /\ call.pc = "query"
    /\ call.db.kind = "raises"
    /\ call' = [call EXCEPT !.pc = "raised", !.queried = TRUE]
    /\ UNCHANGED composer_vars

-----------------------------------------------------------------------------
(* execute_procedure *)

ProcedureNames == {"sp_a", "sp_b"}

ExecuteProcedureCalls ==
    { [fn |-> "execute_procedure", pc |-> "called", name |-> name,
       connect |-> connect, execute |-> execute, out |-> {}] :
         name \in ProcedureNames, connect \in {"ok", "raises"},
         execute \in {"ok", "raises"} }

\* with engine.connect() as connection: the connection opens
Connects ==
    /\ call.fn = "execute_procedure"
    /\ call.pc = "called"
    /\ call.connect = "ok"
    /\ call' = [call EXCEPT !.pc = "try"]
    /\ UNCHANGED composer_vars

\* where control goes when engine.connect() raises: the with statement is
\* outside the try, the exception leaves the function
AfterConnectRaises == "raised"

ConnectRaises ==
    /\ call.fn = "execute_procedure"
    /\ call.pc = "called"
    /\ call.connect = "raises"
    /\ call' = [call EXCEPT !.pc = AfterConnectRaises]
    /\ UNCHANGED composer_vars

\* the CALL returns
ProcedureSucceeds ==
    /\ call.fn = "execute_procedure"
    /\ call.pc = "try"
    /\ call.execute = "ok"
    /\ call' = [call EXCEPT !.pc = "returned",
                            !.out = @ \cup {Msg("se ejecuto exitosamente", call.name)}]
    /\ UNCHANGED composer_vars

\* execution_options or the CALL raises: except Exception prints it
ProcedureRaises ==
    /\ call.fn = "execute_procedure"
    /\ call.pc = "try"
    /\ call.execute = "raises"
    /\ call' = [call EXCEPT !.pc = "returned",
                            !.out = @ \cup {Msg("Error executing procedure", call.name)}]
    /\ UNCHANGED composer_vars

-----------------------------------------------------------------------------
(* read_procedures_from_file.  A line is the sequence of its characters     *)
(* before the line end.                                                     *)

\* the most lines of a procedure file
MaxLines == 2

ProcedureLines ==
    { <<>>, <<" ">>, <<"p">>, <<"q">>, <<" ", "p", " ">>, <<"#", "p">>,
      <<" ", "#">>, <<"p", "#">>, <<"p", " ", "q">> }

\* text.lstrip()
RECURSIVE LStrip(_)
LStrip(chars) ==
    IF chars # <<>> /\ Head(chars) = " " THEN LStrip(Tail(chars)) ELSE chars

\* text.rstrip()
RECURSIVE RStrip(_)
RStrip(chars) ==
    IF chars # <<>> /\ chars[Len(chars)] = " "
    THEN RStrip(SubSeq(chars, 1, Len(chars) - 1)) ELSE chars

\* line.strip()
Strip(chars) == RStrip(LStrip(chars))

\* proc_name and not proc_name.startswith("#")
IsProcedureName(proc_name) == proc_name # <<>> /\ Head(proc_name) # "#"

\* the file: open() finds it, does not find it, or raises something else;
\* reading raises at line fail_at (never when fail_at is 0)
ProcedureFiles ==
    { [open |-> "missing", lines |-> <<>>, fail_at |-> 0],
      [open |-> "denied", lines |-> <<>>, fail_at |-> 0] } \cup
    { [open |-> "ok", lines |-> lines, fail_at |-> fail_at] :
         lines \in UNION { [1..n -> ProcedureLines] : n \in 0..MaxLines },
         fail_at \in 0..(MaxLines + 1) }

ReadProceduresCalls ==
    { [fn |-> "read_procedures_from_file", pc |-> "called", file |-> file,
       at |-> 1, procedures |-> <<>>, returned |-> FALSE, ret |-> <<>>,
       status |-> 0, out |-> {}] :
         file \in { f \in ProcedureFiles : f.fail_at <= Len(f.lines) + 1 } }

\* open(filename, "r") returns
OpensFile ==
    /\ call.fn = "read_procedures_from_file"
    /\ call.pc = "called"
    /\ call.file.open = "ok"
    /\ call' = [call EXCEPT !.pc = "reading"]
    /\ UNCHANGED composer_vars

\* open raises FileNotFoundError: sys.exit(1)
FileNotFound ==
    /\ call.fn = "read_procedures_from_file"
    /\ call.pc = "called"
    /\ call.file.open = "missing"
    /\ call' = [call EXCEPT !.pc = "exited", !.status = 1,
                            !.out = @ \cup {Msg("no fue encontrado", "")}]
    /\ UNCHANGED composer_vars

\* what except Exception does with the list read so far, were it to return it
AfterReadError_returns(procedures) ==
    [pc |-> "returned", returned |-> TRUE, ret |-> procedures, status |-> 0]

\* except Exception: sys.exit(1); the list read so far is returned to no one
AfterReadError(procedures) ==
    [pc |-> "exited", returned |-> FALSE, ret |-> <<>>, status |-> 1]

\* open raises another exception, or reading the next line does
ReadError ==
    /\ call.fn = "read_procedures_from_file"
    /\ \/ call.pc = "called" /\ call.file.open = "denied"
       \/ call.pc = "reading" /\ call.at = call.file.fail_at
    /\ LET after == AfterReadError(call.procedures)
       IN call' = [call EXCEPT !.pc = after.pc, !.returned = after.returned,
                               !.ret = after.ret, !.status = after.status,
                               !.out = @ \cup {Msg("Error leyendo el archivo", "")}]
    /\ UNCHANGED composer_vars

\* one turn of for line in file
ReadsLine ==
    /\ call.fn = "read_procedures_from_file"
    /\ call.pc = "reading"
    /\ call.at # call.file.fail_at
    /\ call.at <= Len(call.file.lines)
    /\ LET proc_name == Strip(call.file.lines[call.at])
       IN call' = [call EXCEPT
                     !.at = @ + 1,
                     !.procedures = IF IsProcedureName(proc_name)
                                    THEN Append(@, proc_name) ELSE @]
    /\ UNCHANGED composer_vars

\* the file is at its end: return procedures
ReturnsProcedures ==
    /\ call.fn = "read_procedures_from_file"
    /\ call.pc = "reading"
    /\ call.at # call.file.fail_at
    /\ call.at > Len(call.file.lines)
    /\ call' = [call EXCEPT !.pc = "returned", !.returned = TRUE,
                            !.ret = call.procedures]
    /\ UNCHANGED composer_vars

-----------------------------------------------------------------------------
(* One call of one of these functions, generate_multi_report_pdf not called *)

InitCalls ==
    /\ prog = "report"
    /\ sub_report_functions = ReportMain
    /\ report_date \in ReportDates
    /\ run = 1
    /\ pc = "NotCalled"
    /\ i = 1
    /\ all_elements = <<>>
    /\ image_paths = <<>>
    /\ fecha_value = NoFecha
    /\ fecha_writes = 0
    /\ results = <<>>
    /\ contrib = <<>>
    /\ builds = <<>>
    /\ outcome = "Pending"
    /\ output_written = FALSE
    /\ files = {}
    /\ first_run = NoRun
    /\ printed = {}
    /\ call \in FormatCalls \cup ChartSeriesCalls \cup SaveChartCalls
                   \cup GetReportDateCalls \cup ExecuteProcedureCalls
                   \cup ReadProceduresCalls

NextCalls ==
    \/ FormatTwoDecimals
    \/ FormatZeroDecimals
    \/ ChartSeries
    \/ Savefig
    \/ SavefigRaises
    \/ FileBecomesVisible
    \/ Sleep
    \/ ExistsCheck
    \/ DateFromArgument
    \/ DateNotFromArgument
    \/ DateFromDatabase
    \/ DateQueryRaises
    \/ Connects
    \/ ConnectRaises
    \/ ProcedureSucceeds
    \/ ProcedureRaises
    \/ OpensFile
    \/ FileNotFound
    \/ ReadError
    \/ ReadsLine
    \/ ReturnsProcedures

SpecCalls == InitCalls /\ [][NextCalls]_vars

-----------------------------------------------------------------------------
\* C14 as stated: a chart file that is visible, at the first existence check
\* or only shortly after it, gives no render error; a file that never
\* becomes visible gives one.
C14_LateFileNoError ==
    (call.fn = "save_chart" /\ call.pc = "done" /\ call.ret # "savefig error") =>
        /\ call.visible => call.ret = "ok"
        /\ ~call.appears => call.ret = "FileNotFoundError"

\* C14: after savefig the code sleeps once and checks the existence of the
\* file exactly once.  A file visible at that check gives no error; a file
\* not visible at that check gives FileNotFoundError, also when it becomes
\* visible later; a file that never becomes visible gives the error.
C14_OneCheckAfterSleep ==
    call.fn = "save_chart" =>
        /\ call.checks <= 1
        /\ (call.pc = "done" /\ call.ret # "savefig error") => call.checks = 1
        /\ call.ret = "ok" => call.visible /\ ~call.late
        /\ call.ret = "FileNotFoundError" => ~call.visible \/ call.late
        /\ (call.pc = "done" /\ call.checks = 1 /\ call.visible /\ ~call.late)
              => call.ret = "ok"
        /\ (call.pc = "done" /\ call.checks = 1 /\ ~call.appears)
              => call.ret = "FileNotFoundError"

C14_Witness ==
    /\ call.fn = "save_chart"
    /\ call.pc = "done"
    /\ call.visible
    /\ call.late
    /\ call.ret = "FileNotFoundError"

-----------------------------------------------------------------------------
\* C15: for a dataset returned newest first, the labels and the values
\* handed to the bar chart are the dataset in the opposite order: the j-th
\* label and the j-th value both come from the j-th row counted from the
\* end, and the dataset itself is as the query returned it.
C15_SeriesIsReverse ==
    (call.fn = "chart_series" /\ call.pc = "done") =>
        LET n == Len(call.given) IN
        /\ Len(call.labels) = n
        /\ Len(call.values) = n
        /\ \A j \in 1..n :
              /\ call.labels[j] = ZeroPad(call.given[n - j + 1].fecha.m, 2)
                                     \o <<"-">> \o ZeroPad(call.given[n - j + 1].fecha.d, 2)
              /\ call.fechas[j].y = call.given[n - j + 1].fecha.y
              /\ call.values[j].float = call.given[n - j + 1].total
        /\ \A j \in 1..(n - 1) : Before(call.fechas[j], call.fechas[j + 1])
        /\ call.data = call.given

C15_Witness ==
    /\ call.fn = "chart_series"
    /\ call.pc = "done"
    /\ Len(call.given) >= 3
    /\ call.given[1].total # call.given[3].total
    /\ call.given[1].fecha.y # call.given[3].fecha.y
    /\ call.labels[1] = <<"1", "2", "-", "3", "0">>

-----------------------------------------------------------------------------
\* how many times char is in chars
CountChar(chars, char) == Cardinality({ k \in 1..Len(chars) : chars[k] = char })

\* C16: the two-decimal format renders 1234.5 as "1.234,50", and every
\* number with one ',' only, in front of the two decimals.
C16_CommaIsDecimalSeparator ==
    (call.fn = "format" /\ call.pc = "done" /\ call.places = 2) =>
        /\ call.value = 9876 =>
              call.ret = <<"1", ".", "2", "3", "4", ",", "5", "0">>
        /\ CountChar(call.ret, ",") = 1
        /\ Len(call.ret) >= 4
        /\ call.ret[Len(call.ret) - 2] = ","

-----------------------------------------------------------------------------
DigitValue(char) == CHOOSE d \in 0..9 : DigitChars[d + 1] = char

\* the number a sequence of digits writes
RECURSIVE NumberOf(_)
NumberOf(digits) ==
    IF digits = <<>> THEN 0
    ELSE 10 * NumberOf(SubSeq(digits, 1, Len(digits) - 1))
            + DigitValue(digits[Len(digits)])

\* chars without the minus sign in front
Magnitude(chars) == IF chars # <<>> /\ Head(chars) = "-" THEN Tail(chars) ELSE chars

\* digits in groups of three counted from the right, a '.' between groups
GroupedByDots(chars) ==
    /\ chars # <<>>
    /\ Len(chars) % 4 # 0
    /\ \A k \in 1..Len(chars) :
          IF (Len(chars) - k + 1) % 4 = 0 THEN chars[k] = "."
          ELSE chars[k] \in { DigitChars[d] : d \in 1..10 }

IsDigitChar(char) == char # "."

\* the zero-decimal rendering is a whole number grouped by '.', the nearest
\* to the value
ZeroDecimalsShape ==
    LET mag == IF call.value < 0 THEN -call.value ELSE call.value
        n == NumberOf(SelectSeq(Magnitude(call.ret), IsDigitChar))
        diff == IF 8 * n < mag THEN mag - 8 * n ELSE 8 * n - mag
    IN /\ GroupedByDots(Magnitude(call.ret))
       /\ (Head(call.ret) = "-") = (call.value < 0)
       /\ diff <= 4

\* C17 as stated: the zero-decimal format rounds to an integer and groups by
\* '.', and renders 1234.5 as "1.235".
C17_HalfRoundsUp ==
    (call.fn = "format" /\ call.pc = "done" /\ call.places = 0) =>
        /\ ZeroDecimalsShape
        /\ call.value = 9876 => call.ret = <<"1", ".", "2", "3", "5">>

\* C17: the zero-decimal format rounds to the nearest integer, a half going
\* to the even neighbour, and groups thousands with '.': 1234.5 renders as
\* "1.234" and 1235.5 as "1.236".
C17_HalfRoundsToEven ==
    (call.fn = "format" /\ call.pc = "done" /\ call.places = 0) =>
        LET mag == IF call.value < 0 THEN -call.value ELSE call.value
            n == NumberOf(SelectSeq(Magnitude(call.ret), IsDigitChar))
        IN /\ ZeroDecimalsShape
           /\ (8 * n - mag = 4 \/ mag - 8 * n = 4) => n % 2 = 0
           /\ call.value = 9876 => call.ret = <<"1", ".", "2", "3", "4">>
           /\ call.value = 9884 => call.ret = <<"1", ".", "2", "3", "6">>

C17_Witness ==
    /\ call.fn = "format"
    /\ call.pc = "done"
    /\ call.places = 0
    /\ call.value = 9876
    /\ call.ret = <<"1", ".", "2", "3", "4">>

-----------------------------------------------------------------------------
\* the days of 2025 among the month and day numbers an argument may hold
RealDays == {<<2, 5>>, <<3, 5>>, <<3, 30>>}

\* the argument is a date that exists, nothing else in the text
ArgumentIsDate ==
    /\ call.argv.given
    /\ ~call.argv.text.junk
    /\ <<call.argv.text.m, call.argv.text.d>> \in RealDays

\* text is YYYY-MM-DD for a date that exists
IsIsoDate(text) ==
    /\ ~text.junk
    /\ text.padded
    /\ text.m \in 1..12
    /\ text.d \in 1..31

-----------------------------------------------------------------------------
\* C19: every failure of execute_procedure, a failure to open the connection
\* as well as a failure of the CALL, is printed and swallowed: the function
\* never raises, it returns.
C19_AlwaysReturnsNormally ==
    call.fn = "execute_procedure" =>
        /\ call.pc # "raised"
        /\ (call.pc = "returned" /\ (call.connect = "raises" \/ call.execute = "raises"))
              => Msg("Error executing procedure", call.name) \in call.out

-----------------------------------------------------------------------------
Min(set) == CHOOSE x \in set : \A y \in set : x <= y
Max(set) == CHOOSE x \in set : \A y \in set : x >= y

\* line from its first to its last character that is not a space
Trimmed(line) ==
    LET inked == { k \in 1..Len(line) : line[k] # " " }
    IN IF inked = {} THEN <<>> ELSE SubSeq(line, Min(inked), Max(inked))

\* the procedure names of a file: its lines trimmed, without the empty ones
\* and the ones that start with '#', in file order
RECURSIVE NamesOf(_)
NamesOf(lines) ==
    IF lines = <<>> THEN <<>>
    ELSE (IF Trimmed(Head(lines)) # <<>> /\ Trimmed(Head(lines))[1] # "#"
          THEN <<Trimmed(Head(lines))>> ELSE <<>>) \o NamesOf(Tail(lines))

\* C20: read_procedures_from_file returns the complete list of procedure
\* names of the file, or the process exits with status 1 and nothing is
\* returned.  A missing file exits at once, before any line is read, and a
\* call in which opening or reading failed never returns a list.
C20_CompleteListOrExit ==
    call.fn = "read_procedures_from_file" =>
        /\ call.pc = "returned" =>
              /\ call.returned
              /\ call.ret = NamesOf(call.file.lines)
              /\ call.file.open = "ok"
              /\ call.file.fail_at = 0
        /\ call.pc = "exited" =>
              /\ call.status = 1
              /\ ~call.returned
              /\ call.ret = <<>>
              /\ call.out # {}
        /\ call.pc # "returned" => ~call.returned
        /\ (call.file.open = "missing" /\ call.pc # "called") =>
              call.pc = "exited" /\ call.at = 1 /\ call.procedures = <<>>
        /\ (call.file.open # "ok" \/ call.file.fail_at # 0) => call.pc # "returned"

C20_Witness ==
    /\ call.fn = "read_procedures_from_file"
    /\ call.pc = "exited"
    /\ call.file.fail_at = 2
    /\ call.procedures # <<>>
    /\ Len(call.file.lines) = 2
    /\ NamesOf(call.file.lines) # call.procedures

-----------------------------------------------------------------------------
\* C21: the generators run one at a time in the configured order: the k-th
\* call made is a call of the k-th configured generator, the loop is at
\* generator k + 1 exactly when k calls have returned or raised, no
\* generator is called twice, and doc.build is called only when all N calls
\* are over.
C21_OneAtATimeInOrder ==
    /\ Len(results) <= N
    /\ \A k \in 1..Len(results) :
          results[k] \in Call(prog, sub_report_functions[k], report_date)
    /\ pc = "PerSubReport" => i <= N /\ Len(results) = i - 1
    /\ LoopDone => Len(results) = N
    /\ builds # <<>> => Len(results) = N /\ Len(contrib) = N

C21_Witness ==
    /\ pc = "Returned"
    /\ N = 7
    /\ Len(results) = 7
    /\ Raised # {}
    /\ Returned # {}
    /\ builds # <<>>

-----------------------------------------------------------------------------
\* the chart files the generators called so far have written
Written == UNION { results[k].wrote : k \in 1..Len(results) }

\* the last doc.build of the call is over
RenderingOver ==
    /\ builds # <<>>
    /\ builds[Len(builds)].ok \/ Len(builds) = 2

\* C22: a chart file is deleted only after the document was assembled: as
\* long as the last render attempt of the call is not over, every chart file
\* a generator has written is still on disk (no generator deletes one, and
\* the cleanup loop has not yet run).
C22_DeletedOnlyAfterLastRender ==
    /\ pc # "Returned" => Written \subseteq files
    /\ (Written \ files # {}) => RenderingOver /\ pc = "Returned"

C22_Witness ==
    /\ pc = "Returned"
    /\ Written \ files # {}
    /\ Len(builds) = 2

-----------------------------------------------------------------------------
\* C23 as stated: whatever the render outcome, when the call has returned no
\* path of image_paths is on disk any more.
C23_EveryTrackedPathRemoved ==
    pc = "Returned" => Range(image_paths) \cap files = {}

\* C23: the cleanup loop runs in every terminal state, Failed included: when
\* the call has returned, every path of image_paths that was on disk has
\* been handed to os.remove, and is gone unless os.remove raised, in which
\* case the failure was printed.
C23_CleanupInEveryOutcome ==
    pc = "Returned" =>
        /\ outcome \in {"Rendered", "DegradedRendered", "Failed"}
        /\ \A path \in Range(image_paths) :
              path \notin files \/ Msg("Failed to clean up", path) \in printed

C23_Witness ==
    /\ pc = "Returned"
    /\ outcome = "Failed"
    /\ image_paths # <<>>
    /\ Range(image_paths) \subseteq Written
    /\ Range(image_paths) \cap files = {}

-----------------------------------------------------------------------------
-----------------------------------------------------------------------------
\* C25: every Image that is an element of the sequence a generator returned
\* is in image_paths, whether it comes before or after a Paragraph with a
\* date marker in that sequence.
C25_EveryTopLevelImageTracked ==
    \A k \in Returned :
        \A m \in 1..Len(results[k].elements) :
            results[k].elements[m].kind = "Image"
                => results[k].elements[m].arg \in Range(image_paths)

-----------------------------------------------------------------------------
\* C26: when the call has returned, no chart file that a generator wrote
\* during the run is left on disk (a removal that raised and was printed
\* aside); stated for the runs the claim singles out, those in which a
\* generator wrote a chart file and then caught a chart failure.
C26_NoChartFileRemains ==
    (pc = "Returned"
        /\ \E k \in Returned : ChartFailed(results[k]) /\ results[k].wrote # {}) =>
        \A path \in Written :
            path \notin files \/ Msg("Failed to clean up", path) \in printed

====
